---- MODULE Spec2Model ----
(***************************************************************************)
(* Resumable batch-estimation pipeline of yes-chef-challenge:              *)
(*   backend/main.py      process_menu_background, the endpoints           *)
(*   backend/src/state.py StateManager (load/save/update_batch/clear)      *)
(*   backend/src/models.py JobState, LineItem                              *)
(*   backend/src/agent.py  ChefAgent.estimate_item, the tool loop          *)
(*   backend/src/catalog.py SyscoCatalog, the fuzzy search                 *)
(* The reasoning service, the file system and process crashes are the      *)
(* environment: their outcomes are drawn from small sets.                  *)
(***************************************************************************)
EXTENDS Naturals, Integers, Sequences, FiniteSets, TLC

\* ---------------------------------------------------------------- bounds
MaxDishes == 4          \* longest dish list a client submits
MaxItems == 4           \* cap on len(processed_items) + len(submitted list)
MaxCalls == 2           \* most tool calls in one response of the service
MaxIngredients == 2     \* most ingredients in one LineItem payload
MaxOverlap == 2         \* longest dish list of a submission that overlaps another
MaxCatalog == 2         \* most rows of the product table
MaxTokens == 2          \* most words in a search query
MaxLimit == 2           \* largest limit passed to search

\* ------------------------------------------------------------- constants
BATCH_SIZE == 3

Names == {"A", "B"}                 \* dish names / item_name strings
Deltas == {"x"}                     \* texts returned by compact_context
Tasks == {1, 2}                     \* background-task slots
SaveOutcomes == {"ok", "open_fail", "write_fail"}

\* strings are sequences of tokens; an f-string is a concatenation
DEFAULT_LEARNINGS == <<"None yet. Proceed with standard search.">>
SEPARATOR == <<" | ">>

\* ------------------------------------------------------------ data model
\* models.py JobState.status
Statuses == {"pending", "in_progress", "completed", "failed"}

\* models.py JobState(): the field defaults
BlankState ==
  [processed_count |-> 0,
   processed_items |-> <<>>,
   current_learnings |-> DEFAULT_LEARNINGS,
   status |-> "pending"]

\* models.py LineItem, reduced to item_name; dish records the request the
\* item was produced for (the menu_item argument of estimate_item)
LineItem(d, n) == [dish |-> d, item_name |-> n]

\* content of data/job_state.json
NoFile == [kind |-> "none", data |-> BlankState]
Partial == [kind |-> "partial", data |-> BlankState]
Json(s) == [kind |-> "json", data |-> s]

\* a background task that is not running
IdleRun ==
  [pc |-> "idle", items |-> <<>>, todo |-> <<>>, batch |-> <<>>,
   learnings |-> <<>>, est |-> <<>>, calls |-> <<>>, ckpts |-> <<>>,
   done0 |-> {}, items0 |-> <<>>, base |-> BlankState, basedisk |-> NoFile,
   ooo |-> FALSE]

\* agent.py estimate_item before it is called
NoPayload ==
  [shape |-> "none", item_name |-> "", unit_costs |-> <<>>,
   ingredient_cost_per_unit |-> 0]
NoResult ==
  [kind |-> "none", item_name |-> "", unit_costs |-> <<>>,
   ingredient_cost_per_unit |-> 0, exc |-> "", payload |-> NoPayload]

IdleAgent ==
  [pc |-> "idle", dish |-> "", messages |-> <<>>, requests |-> <<>>,
   tool_calls |-> <<>>, final |-> NoPayload, result |-> NoResult]

\* catalog.py: no SyscoCatalog built yet
NoCatalog ==
  [pc |-> "unloaded", descriptions |-> <<>>, query |-> <<>>, limit |-> 0,
   score_cutoff |-> 0, results |-> <<>>]

VARIABLES
  mem,      \* state_manager.state
  disk,     \* data/job_state.json
  run,      \* run[t]: the background task t (process_menu_background)
  ev,       \* the operation that produced this state
  ag,       \* one estimate_item call: its exchange with the reasoning service
  cs        \* the SyscoCatalog object and its last search

vars == <<mem, disk, run, ev, ag, cs>>

\* ------------------------------------------------------- pure operations
RECURSIVE SeqNames(_)
SeqNames(s) == IF s = <<>> THEN {} ELSE {Head(s).item_name} \cup SeqNames(Tail(s))

\* state.py get_processed_names
get_processed_names(s) == SeqNames(s.processed_items)

\* mutant: nothing is skipped on resume
Filter_none(items, done) == items

RECURSIVE Filter(_, _)
\* main.py:65  [i for i in items if i['name'] not in done_names]
Filter(items, done) ==
  IF items = <<>> THEN <<>>
  ELSE IF Head(items) \in done THEN Filter(Tail(items), done)
       ELSE <<Head(items)>> \o Filter(Tail(items), done)

Min(a, b) == IF a < b THEN a ELSE b

\* main.py:76  todo_items[:BATCH_SIZE]
TakeBatch(todo) == SubSeq(todo, 1, Min(BATCH_SIZE, Len(todo)))

\* mutant: the rest of the list is cut one element too early
DropBatch_short(todo) == SubSeq(todo, Min(BATCH_SIZE - 1, Len(todo)) + 1, Len(todo))

\* main.py:77  todo_items[BATCH_SIZE:]
DropBatch(todo) == SubSeq(todo, Min(BATCH_SIZE, Len(todo)) + 1, Len(todo))

\* state.py load_state: the file's state when it exists and parses,
\* otherwise self.state is left as it was
\* mutant: a missing or unreadable file resets the state in memory
load_state_reset(prev, file) ==
  IF file.kind = "json" THEN file.data ELSE BlankState

load_state(prev, file) ==
  IF file.kind = "json" THEN file.data ELSE prev

\* state.py save_state: 'w' truncates on open, the write follows; every
\* exception is swallowed
save_state(s, file, o) ==
  CASE o = "ok" -> Json(s)
    [] o = "open_fail" -> file
    [] o = "write_fail" -> Partial

\* mutant: the counter is incremented by one per checkpoint
update_batch_count(s, new_items, new_learnings) ==
  [s EXCEPT !.processed_items = @ \o new_items,
            !.processed_count = @ + 1,
            !.current_learnings = @ \o SEPARATOR \o <<new_learnings>>]

\* mutant: the learnings are not accumulated
update_batch_drop(s, new_items, new_learnings) ==
  [s EXCEPT !.processed_items = @ \o new_items,
            !.processed_count = @ + Len(new_items)]

\* mutant: the delta is concatenated without the separator
update_batch_nosep(s, new_items, new_learnings) ==
  [s EXCEPT !.processed_items = @ \o new_items,
            !.processed_count = @ + Len(new_items),
            !.current_learnings = @ \o <<new_learnings>>]

\* state.py update_batch, the in-memory part (lines 59-67)
update_batch(s, new_items, new_learnings) ==
  [s EXCEPT !.processed_items = @ \o new_items,
            !.processed_count = @ + Len(new_items),
            !.current_learnings = @ \o SEPARATOR \o <<new_learnings>>]

\* main.py get_status
get_status(s) ==
  [processed_count |-> s.processed_count,
   total_items_in_state |-> Len(s.processed_items),
   status |-> s.status,
   learnings |-> s.current_learnings,
   latest_items |-> s.processed_items]

\* mutant: the results are collected last call first
Gather_rev(est) == [i \in 1..Len(est) |-> est[Len(est) + 1 - i].item]

\* asyncio.gather: the results in the order of the awaitables
Gather(est) == [i \in 1..Len(est) |-> est[i].item]

\* ---------------------------------------------------------------- inputs
DishLists == UNION {[1..n -> Names] : n \in 0..MaxDishes}

\* prev is the status memory had before the operation
Event(op, t, o) == [op |-> op, t |-> t, save |-> o, prev |-> mem.status]

NoRunInFlight == \A t \in Tasks : run[t].pc \in {"idle", "done", "aborted"}

\* --------------------------------------------------------------- actions
\* StateManager.__init__ at process start
Init ==
  /\ mem = BlankState
  /\ disk = NoFile
  /\ run = [t \in Tasks |-> IdleRun]
  /\ ev = Event("Init", 0, "none")
  /\ ag = IdleAgent
  /\ cs = NoCatalog

\* state.py clear_state
clear_state_mem == BlankState

\* mutant: the file is not removed
clear_state_disk_keep == disk

clear_state_disk == NoFile

\* main.py start_estimation_json: optional reset, then queue the task
Submit(t, items, reset) ==
  /\ run[t].pc \in {"idle", "done", "aborted"}
  /\ LET m == IF reset THEN clear_state_mem ELSE mem
     IN /\ Len(m.processed_items) + Len(items) <= MaxItems
        /\ mem' = m
  /\ disk' = IF reset THEN clear_state_disk ELSE disk
  /\ run' = [run EXCEPT ![t] = [IdleRun EXCEPT !.pc = "queued", !.items = items]]
  /\ ev' = Event("Submit", t, IF reset THEN "reset" ELSE "none")
  /\ UNCHANGED <<ag, cs>>

\* mutant: the status is not touched at job start
MarkInProgress_skip(s) == s

\* main.py:70
MarkInProgress(s) == [s EXCEPT !.status = "in_progress"]

\* mutant: the end of the run is recorded as a failure
MarkCompleted_failed(s) == [s EXCEPT !.status = "failed"]

\* main.py:98
MarkCompleted(s) == [s EXCEPT !.status = "completed"]

\* main.py:64-71  resumability check, status in_progress, save
Start(t, o) ==
  /\ run[t].pc = "queued"
  /\ LET done_names == get_processed_names(mem)
         todo_items == Filter(run[t].items, done_names)
         m == MarkInProgress(mem)
     IN /\ mem' = m
        /\ disk' = save_state(m, disk, o)
        /\ run' = [run EXCEPT ![t] = [@ EXCEPT !.pc = "batching",
                                               !.todo = todo_items,
                                               !.done0 = done_names,
                                               !.items0 = mem.processed_items]]
  /\ ev' = Event("Start", t, o)
  /\ UNCHANGED <<ag, cs>>

\* main.py:74-87  take the next batch, read the learnings, issue the
\* estimate calls of the group and wait in gather
StartGroup(t) ==
  /\ run[t].pc = "batching"
  /\ run[t].todo # <<>>
  /\ LET batch == TakeBatch(run[t].todo)
         current_learnings == mem.current_learnings
     IN run' = [run EXCEPT ![t] =
                  [@ EXCEPT !.pc = "estimating",
                            !.batch = batch,
                            !.todo = DropBatch(run[t].todo),
                            !.learnings = current_learnings,
                            !.est = [i \in 1..Len(batch) |->
                                       [st |-> "pending", item |-> LineItem(batch[i], batch[i])]],
                            !.calls = @ \o [i \in 1..Len(batch) |->
                                       [name |-> batch[i], learnings |-> current_learnings]],
                            !.base = mem,
                            !.basedisk = disk]]
  /\ UNCHANGED <<mem, disk>>
  /\ ev' = Event("StartGroup", t, "none")
  /\ UNCHANGED <<ag, cs>>

\* agent.py estimate_item returns a LineItem that validates; item_name is
\* whatever the reasoning service wrote
EstimateReturn(t, i, n) ==
  /\ run[t].pc = "estimating"
  /\ i \in 1..Len(run[t].est)
  /\ run[t].est[i].st = "pending"
  /\ run' = [run EXCEPT ![t].est[i] =
                            [st |-> "done", item |-> LineItem(run[t].batch[i], n)],
                          ![t].ooo = @ \/ \E j \in 1..(i - 1) : run[t].est[j].st = "pending"]
  /\ UNCHANGED <<mem, disk>>
  /\ ev' = Event("EstimateReturn", t, "none")
  /\ UNCHANGED <<ag, cs>>

\* mutant: the results that did arrive are appended when a call fails
EstimateFail_partial(t, i) ==
  /\ run[t].pc = "estimating"
  /\ i \in 1..Len(run[t].est)
  /\ run[t].est[i].st = "pending"
  /\ run' = [run EXCEPT ![t].pc = "aborted", ![t].est[i].st = "failed"]
  /\ LET arrived == SelectSeq(run[t].est, LAMBDA e : e.st = "done")
     IN mem' = [mem EXCEPT !.processed_items =
                  @ \o [j \in 1..Len(arrived) |-> arrived[j].item]]
  /\ UNCHANGED disk
  /\ ev' = Event("EstimateFail", t, "none")
  /\ UNCHANGED <<ag, cs>>

\* agent.py estimate_item raises (service error or validation error):
\* gather re-raises and process_menu_background ends with the exception
EstimateFail(t, i) ==
  /\ run[t].pc = "estimating"
  /\ i \in 1..Len(run[t].est)
  /\ run[t].est[i].st = "pending"
  /\ run' = [run EXCEPT ![t].pc = "aborted", ![t].est[i].st = "failed"]
  /\ UNCHANGED <<mem, disk>>
  /\ ev' = Event("EstimateFail", t, "none")
  /\ UNCHANGED <<ag, cs>>

\* mutant: gather returns as soon as one estimate is back
AllDone_some(est) == \E i \in 1..Len(est) : est[i].st = "done"

\* main.py:87  await asyncio.gather(*tasks)
AllDone(est) == \A i \in 1..Len(est) : est[i].st = "done"

\* main.py:87-95  gather returns, compact_context returns new_learnings,
\* update_batch appends and saves
Checkpoint(t, delta, o) ==
  /\ run[t].pc = "estimating"
  /\ AllDone(run[t].est)
  /\ LET results == Gather(run[t].est)
         m == update_batch(mem, results, delta)
     IN /\ mem' = m
        /\ disk' = save_state(m, disk, o)
        /\ run' = [run EXCEPT ![t] =
                     [@ EXCEPT !.pc = "batching",
                               !.ckpts = Append(@, [n |-> Len(results), delta |-> delta])]]
  /\ ev' = Event("Checkpoint", t, o)
  /\ UNCHANGED <<ag, cs>>

\* main.py:91  compact_context raises: the task ends with the exception
CompactFail(t) ==
  /\ run[t].pc = "estimating"
  /\ AllDone(run[t].est)
  /\ run' = [run EXCEPT ![t].pc = "aborted"]
  /\ UNCHANGED <<mem, disk>>
  /\ ev' = Event("CompactFail", t, "none")
  /\ UNCHANGED <<ag, cs>>

\* main.py:97-99  todo is empty: status completed, save
Finish(t, o) ==
  /\ run[t].pc = "batching"
  /\ run[t].todo = <<>>
  /\ LET m == MarkCompleted(mem)
     IN /\ mem' = m
        /\ disk' = save_state(m, disk, o)
  /\ run' = [run EXCEPT ![t].pc = "done"]
  /\ ev' = Event("Finish", t, o)
  /\ UNCHANGED <<ag, cs>>

\* main.py get_status endpoint: a read of state_manager.state; the response
\* is get_status(mem) and nothing is written
Poll ==
  /\ get_status(mem).status \in Statuses
  /\ UNCHANGED vars

\* the process dies between two steps and is started again:
\* StateManager.__init__ = JobState() then load_state()
Crash ==
  /\ mem' = load_state(BlankState, disk)
  /\ UNCHANGED disk
  /\ run' = [t \in Tasks |-> IdleRun]
  /\ ev' = Event("Crash", 0, "none")
  /\ UNCHANGED <<ag, cs>>

AtSave(t) ==
  \/ run[t].pc = "queued"
  \/ run[t].pc = "batching" /\ run[t].todo = <<>>
  \/ run[t].pc = "estimating" /\ AllDone(run[t].est)

\* the process dies while save_state is writing (after the truncating
\* open, before the data is flushed), and is started again
CrashInSave(t) ==
  /\ AtSave(t)
  /\ disk' = Partial
  /\ mem' = load_state(BlankState, Partial)
  /\ run' = [u \in Tasks |-> IdleRun]
  /\ ev' = Event("Crash", 0, "none")
  /\ UNCHANGED <<ag, cs>>

\* one run at a time, as the design assumes
SubmitSolo ==
  /\ NoRunInFlight
  /\ \E items \in DishLists, reset \in BOOLEAN : Submit(1, items, reset)

Step(t) ==
  \/ \E o \in SaveOutcomes : Start(t, o)
  \/ StartGroup(t)
  \/ \E i \in 1..BATCH_SIZE, n \in Names : EstimateReturn(t, i, n)
  \/ \E i \in 1..BATCH_SIZE : EstimateFail(t, i)
  \/ \E d \in Deltas, o \in SaveOutcomes : Checkpoint(t, d, o)
  \/ CompactFail(t)
  \/ \E o \in SaveOutcomes : Finish(t, o)
  \/ CrashInSave(t)

Next ==
  \/ SubmitSolo
  \/ \E t \in Tasks : Step(t)
  \/ Poll
  \/ Crash

Spec == Init /\ [][Next]_vars

----------------------------------------------------------------------------
\* The StateManager object alone (state.py): its methods called in any order
\* on one object and one file.

\* results handed to update_batch in one call
ResultLists ==
  UNION {[1..k -> {LineItem(n, n) : n \in Names}] : k \in 1..BATCH_SIZE}

\* state.py:18-22, a new StateManager over the file as it is
StateManager_init ==
  /\ mem' = load_state(BlankState, disk)
  /\ ev' = Event("init", 0, "none")
  /\ UNCHANGED <<disk, run, ag, cs>>

\* state.py:24-38, load_state called on the existing object
StateManager_load_state ==
  /\ mem' = load_state(mem, disk)
  /\ ev' = Event("load_state", 0, "none")
  /\ UNCHANGED <<disk, run, ag, cs>>

\* state.py:52-70
StateManager_update_batch(new_items, new_learnings, o) ==
  /\ Len(mem.processed_items) + Len(new_items) <= MaxItems
  /\ mem' = update_batch(mem, new_items, new_learnings)
  /\ disk' = save_state(mem', disk, o)
  /\ ev' = Event("update_batch", 0, o)
  /\ UNCHANGED <<run, ag, cs>>

\* state.py:81-89
StateManager_clear_state ==
  /\ mem' = clear_state_mem
  /\ disk' = clear_state_disk
  /\ ev' = Event("clear_state", 0, "reset")
  /\ UNCHANGED <<run, ag, cs>>

NextLoad ==
  \/ StateManager_init
  \/ StateManager_load_state
  \/ \E q \in ResultLists, d \in Deltas, o \in SaveOutcomes :
       StateManager_update_batch(q, d, o)
  \/ StateManager_clear_state

SpecLoad == Init /\ [][NextLoad]_vars

----------------------------------------------------------------------------
\* Two submissions without reset whose background tasks overlap
\* (start_estimation_json queues a task on every POST, main.py:104-117).
\* Everything else goes well: lists without repeated names, writes succeed,
\* the service names each item after its dish.

OverlapLists ==
  {q \in UNION {[1..n -> Names] : n \in 1..MaxOverlap} :
     \A i, j \in 1..Len(q) : q[i] = q[j] => i = j}

SubmitOverlap ==
  \E t \in Tasks, items \in OverlapLists : Submit(t, items, FALSE)

StepOverlap(t) ==
  \/ Start(t, "ok")
  \/ StartGroup(t)
  \/ \E i \in 1..Len(run[t].batch) : EstimateReturn(t, i, run[t].batch[i])
  \/ \E i \in 1..Len(run[t].batch) : EstimateFail(t, i)
  \/ \E d \in Deltas : Checkpoint(t, d, "ok")
  \/ Finish(t, "ok")

NextOverlap ==
  \/ SubmitOverlap
  \/ \E t \in Tasks : StepOverlap(t)

SpecOverlap == Init /\ [][NextOverlap]_vars

----------------------------------------------------------------------------
\* One estimate_item call (agent.py:22-124) and the reasoning service.

\* function names the service may put in a tool call
FunctionNames == {"search_catalog", "other"}
\* tool_call.function.arguments: a JSON object with a query, text that is
\* not JSON, a JSON object without 'query'
Arguments == {"ok", "bad_json", "no_query"}
\* message.content: JSON of the LineItem shape, the same with a key LineItem
\* does not have, anything else (not JSON, a field missing, None)
Shapes == {"conforming", "extra_field", "invalid"}
\* models.py Ingredient.unit_cost, Optional[float]: <<>> is null, <<c>> is c
Costs == {1, 2}
UnitCosts == {<<>>} \cup {<<c>> : c \in Costs}
UnitCostLists == UNION {[1..k -> UnitCosts] : k \in 0..MaxIngredients}
\* LineItem.ingredient_cost_per_unit as the service wrote it
Totals == 0..(2 * MaxIngredients)
Payloads ==
  [shape : Shapes, item_name : Names, unit_costs : UnitCostLists,
   ingredient_cost_per_unit : Totals]

ToolCall(i, f, a) == [id |-> i, name |-> f, arguments |-> a]
ToolCallLists ==
  UNION {{[i \in 1..k |-> ToolCall(i, f[i], a[i])] :
            f \in [1..k -> FunctionNames], a \in [1..k -> Arguments]} :
         k \in 1..MaxCalls}

Msg(role, id) == [role |-> role, tool_call_id |-> id]
Request(tools, json, messages) ==
  [tools |-> tools, json |-> json, messages |-> messages]

\* LineItem.model_validate_json: unknown keys are ignored (no model_config
\* in models.py), anything not of the shape raises ValidationError
model_validate_json(raw) ==
  IF raw.shape \in {"conforming", "extra_field"}
    THEN [NoResult EXCEPT !.kind = "LineItem",
                          !.item_name = raw.item_name,
                          !.unit_costs = raw.unit_costs,
                          !.ingredient_cost_per_unit = raw.ingredient_cost_per_unit]
    ELSE [NoResult EXCEPT !.kind = "raise", !.exc = "ValidationError"]

\* agent.py:88-91, what executing one tool call raises ("" when nothing)
Raises(tc) ==
  IF tc.name # "search_catalog" THEN ""
  ELSE IF tc.arguments = "bad_json" THEN "JSONDecodeError"
  ELSE IF tc.arguments = "no_query" THEN "KeyError"
  ELSE ""

\* index of the first tool call whose execution raises, 0 when none does
FirstRaise(tcs) ==
  IF \E i \in 1..Len(tcs) : Raises(tcs[i]) # ""
    THEN CHOOSE i \in 1..Len(tcs) :
           /\ Raises(tcs[i]) # ""
           /\ \A j \in 1..(i - 1) : Raises(tcs[j]) = ""
    ELSE 0

\* agent.py:87, the calls the loop executes
Answered(tc) == tc.name = "search_catalog"

\* agent.py:86-99, the tool messages appended for the first n calls
ToolMessages(tcs, n) ==
  LET done == SelectSeq(SubSeq(tcs, 1, n), Answered)
  IN  [i \in 1..Len(done) |-> Msg("tool", done[i].id)]

\* agent.py:22-83, the call up to the first request
estimate_item(dish) ==
  /\ ag.pc \in {"idle", "done", "error"}
  /\ LET messages == <<Msg("system", 0), Msg("user", 0)>>
     IN  ag' = [IdleAgent EXCEPT !.pc = "awaiting_reasoning",
                                 !.dish = dish,
                                 !.messages = messages,
                                 !.requests = <<Request(TRUE, FALSE, messages)>>]
  /\ UNCHANGED <<mem, disk, run, ev, cs>>

\* agent.py:118-124, the first response asks for no tool
ReasoningAnswer(raw) ==
  /\ ag.pc = "awaiting_reasoning"
  /\ LET res == model_validate_json(raw)
     IN  ag' = [ag EXCEPT !.pc = IF res.kind = "LineItem" THEN "done" ELSE "error",
                          !.messages = @ \o <<Msg("assistant", 0)>>,
                          !.final = raw,
                          !.result = res]
  /\ UNCHANGED <<mem, disk, run, ev, cs>>

\* agent.py:85-108, the first response asks for tools: the loop, then the
\* second request, unless executing a call raised
ReasoningToolCalls(tcs) ==
  /\ ag.pc = "awaiting_reasoning"
  /\ LET k == FirstRaise(tcs)
         n == IF k = 0 THEN Len(tcs) ELSE k - 1
         messages == ag.messages \o <<Msg("assistant", 0)>> \o ToolMessages(tcs, n)
     IN  IF k = 0
           THEN ag' = [ag EXCEPT !.pc = "awaiting_synthesis",
                                 !.tool_calls = tcs,
                                 !.messages = messages,
                                 !.requests = @ \o <<Request(FALSE, TRUE, messages)>>]
           ELSE ag' = [ag EXCEPT !.pc = "error",
                                 !.tool_calls = tcs,
                                 !.messages = messages,
                                 !.result = [NoResult EXCEPT !.kind = "raise",
                                                             !.exc = Raises(tcs[k])]]
  /\ UNCHANGED <<mem, disk, run, ev, cs>>

\* agent.py:109-116, the response to the second request
SynthesisAnswer(raw) ==
  /\ ag.pc = "awaiting_synthesis"
  /\ LET res == model_validate_json(raw)
     IN  ag' = [ag EXCEPT !.pc = IF res.kind = "LineItem" THEN "done" ELSE "error",
                          !.final = raw,
                          !.result = res]
  /\ UNCHANGED <<mem, disk, run, ev, cs>>

\* agent.py:75 and 103, the request itself raises (network, timeout, rate limit)
ServiceError ==
  /\ ag.pc \in {"awaiting_reasoning", "awaiting_synthesis"}
  /\ ag' = [ag EXCEPT !.pc = "error",
                      !.result = [NoResult EXCEPT !.kind = "raise",
                                                  !.exc = "APIError"]]
  /\ UNCHANGED <<mem, disk, run, ev, cs>>

NextAgent ==
  \/ \E d \in Names : estimate_item(d)
  \/ \E raw \in Payloads : ReasoningAnswer(raw)
  \/ \E tcs \in ToolCallLists : ReasoningToolCalls(tcs)
  \/ \E raw \in Payloads : SynthesisAnswer(raw)
  \/ ServiceError

SpecAgent == Init /\ [][NextAgent]_vars

----------------------------------------------------------------------------
\* The catalog index (catalog.py) over rapidfuzz.  A string is a sequence of
\* one-character strings.

LowerCase == {"a", "b", "c", "d"}
UpperOf(c) ==
  CASE c = "a" -> "A" [] c = "b" -> "B" [] c = "c" -> "C" [] c = "d" -> "D"
    [] OTHER -> c
LowerOf(c) ==
  CASE c = "A" -> "a" [] c = "B" -> "b" [] c = "C" -> "c" [] c = "D" -> "d"
    [] OTHER -> c
IsAlnum(c) == LowerOf(c) \in LowerCase

\* str.upper
upper(str) == [i \in 1..Len(str) |-> UpperOf(str[i])]

RECURSIVE strip(_)
\* str.strip
strip(str) ==
  IF str = <<>> THEN <<>>
  ELSE IF Head(str) = " " THEN strip(Tail(str))
  ELSE IF str[Len(str)] = " " THEN strip(SubSeq(str, 1, Len(str) - 1))
  ELSE str

\* rapidfuzz utils.default_process: every character that is not
\* alphanumeric becomes a space, the rest is lower-cased, the ends trimmed
default_process(str) ==
  strip([i \in 1..Len(str) |-> IF IsAlnum(str[i]) THEN LowerOf(str[i]) ELSE " "])

RECURSIVE split(_)
\* str.split(): the maximal runs of characters that are not spaces
split(str) ==
  IF str = <<>> THEN <<>>
  ELSE IF Head(str) = " " THEN split(Tail(str))
  ELSE LET rest == split(Tail(str))
       IN  IF Len(str) > 1 /\ str[2] # " "
             THEN <<<<Head(str)>> \o Head(rest)>> \o Tail(rest)
             ELSE <<<<Head(str)>>>> \o rest

RECURSIVE join(_)
\* " ".join(tokens)
join(tokens) ==
  IF tokens = <<>> THEN <<>>
  ELSE IF Len(tokens) = 1 THEN Head(tokens)
  ELSE Head(tokens) \o <<" ">> \o join(Tail(tokens))

\* code-point order of the characters in use
CharOrder == <<" ", ",", "A", "B", "C", "D", "a", "b", "c", "d">>
Ord(c) == CHOOSE i \in 1..Len(CharOrder) : CharOrder[i] = c

RECURSIVE StrLeq(_, _)
\* str <= str
StrLeq(x, y) ==
  IF x = <<>> THEN TRUE
  ELSE IF y = <<>> THEN FALSE
  ELSE IF Head(x) = Head(y) THEN StrLeq(Tail(x), Tail(y))
  ELSE Ord(Head(x)) < Ord(Head(y))

RECURSIVE Insert(_, _)
Insert(tok, tokens) ==
  IF tokens = <<>> THEN <<tok>>
  ELSE IF StrLeq(tok, Head(tokens)) THEN <<tok>> \o tokens
  ELSE <<Head(tokens)>> \o Insert(tok, Tail(tokens))

\* mutant: the tokens are left in the order they came
sorted_asis(tokens) == tokens

RECURSIVE sorted(_)
\* sorted(tokens)
sorted(tokens) ==
  IF tokens = <<>> THEN <<>> ELSE Insert(Head(tokens), sorted(Tail(tokens)))

Max(a, b) == IF a > b THEN a ELSE b

RECURSIVE BuildRow(_, _, _, _)
\* one row of the longest-common-subsequence table
BuildRow(prev, c, b, acc) ==
  IF Len(acc) = Len(b) + 1 THEN acc
  ELSE LET j == Len(acc)
       IN  BuildRow(prev, c, b,
                    Append(acc, IF b[j] = c THEN prev[j] + 1
                                ELSE Max(prev[j + 1], acc[j])))

RECURSIVE LcsRows(_, _, _)
LcsRows(a, b, prev) ==
  IF a = <<>> THEN prev[Len(b) + 1]
  ELSE LcsRows(Tail(a), b, BuildRow(prev, Head(a), b, <<0>>))

\* length of a longest common subsequence
Lcs(a, b) == LcsRows(a, b, [j \in 1..(Len(b) + 1) |-> 0])

\* a score on the 0-100 scale is the fraction num / den
Frac(n, d) == [num |-> n, den |-> d]
FracLeq(x, y) == x.num * y.den <= y.num * x.den

\* rapidfuzz fuzz.ratio: normalized Indel similarity, 100 * 2 lcs / (|a| + |b|)
ratio(a, b) ==
  IF Len(a) + Len(b) = 0 THEN Frac(100, 1)
  ELSE Frac(200 * Lcs(a, b), Len(a) + Len(b))

\* the substrings of longer that partial_ratio aligns shorter with: every
\* window of len(shorter), the shorter prefixes and the shorter suffixes
Windows(shorter, longer) ==
  LET n == Len(shorter)
      m == Len(longer)
  IN  {SubSeq(longer, i, i + n - 1) : i \in 1..(m - n + 1)}
        \cup {SubSeq(longer, 1, k) : k \in 1..(n - 1)}
        \cup {SubSeq(longer, m - k + 1, m) : k \in 1..(n - 1)}

BestRatio(shorter, longer) ==
  LET rs == {ratio(shorter, w) : w \in Windows(shorter, longer)}
  IN  CHOOSE r \in rs : \A q \in rs : FracLeq(q, r)

\* rapidfuzz fuzz.partial_ratio
partial_ratio(s1, s2) ==
  IF s1 = <<>> \/ s2 = <<>>
    THEN (IF s1 = s2 THEN Frac(100, 1) ELSE Frac(0, 1))
  ELSE IF Len(s1) < Len(s2) THEN BestRatio(s1, s2)
  ELSE IF Len(s2) < Len(s1) THEN BestRatio(s2, s1)
  ELSE LET x == BestRatio(s1, s2)
           y == BestRatio(s2, s1)
       IN  IF FracLeq(x, y) THEN y ELSE x

\* rapidfuzz fuzz.partial_token_sort_ratio (catalog.py:75)
partial_token_sort_ratio(s1, s2) ==
  partial_ratio(join(sorted(split(s1))), join(sorted(split(s2))))

\* the rows ranked: higher score first, equal scores in table order
RECURSIVE Ranked(_, _)
Ranked(S, score) ==
  IF S = {} THEN <<>>
  ELSE LET best == CHOOSE i \in S : \A j \in S :
                     \/ ~FracLeq(score[i], score[j])
                     \/ (FracLeq(score[j], score[i]) /\ i <= j)
       IN  <<best>> \o Ranked(S \ {best}, score)

\* mutant: the best matches are returned whatever they score
extract_guess(query, choices, limit, score_cutoff) ==
  LET score == [i \in 1..Len(choices) |-> partial_token_sort_ratio(query, choices[i])]
      order == Ranked(1..Len(choices), score)
  IN  [k \in 1..Min(limit, Len(order)) |->
         [index |-> order[k], score |-> score[order[k]]]]

\* rapidfuzz process.extract(query, choices, scorer=partial_token_sort_ratio,
\* limit, score_cutoff), catalog.py:72-78
extract(query, choices, limit, score_cutoff) ==
  LET score == [i \in 1..Len(choices) |-> partial_token_sort_ratio(query, choices[i])]
      hits == {i \in 1..Len(choices) : FracLeq(Frac(score_cutoff, 1), score[i])}
      order == Ranked(hits, score)
  IN  [k \in 1..Min(limit, Len(order)) |->
         [index |-> order[k], score |-> score[order[k]]]]

\* round(score, 2), in hundredths
round2(x) == (2 * 100 * x.num + x.den) \div (2 * x.den)

\* catalog.py:49-94 SyscoCatalog.search
search(descriptions, query, limit, score_cutoff) ==
  IF query = <<>> THEN <<>>
  ELSE LET clean_query == upper(default_process(query))
           results == extract(clean_query, descriptions, limit, score_cutoff)
       IN  [k \in 1..Len(results) |->
              [index |-> results[k].index,
               desc |-> descriptions[results[k].index],
               match_score |-> round2(results[k].score)]]

\* 'Product Description' cells of the table
RawDescriptions ==
  {<<"b", ",", " ", "a">>, <<"a", " ", "b">>, <<"a">>, <<"c">>}
Tables == UNION {[1..n -> RawDescriptions] : n \in 1..MaxCatalog}

\* the words of a query as the caller writes them
QueryWords == {<<"a">>, <<"B", ",">>, <<"d">>}
WordLists == UNION {[1..n -> QueryWords] : n \in 0..MaxTokens}
Limits == 1..MaxLimit
Cutoffs == {50, 100}

\* catalog.py:17-47 SyscoCatalog.__init__: the descriptions upper-cased
SyscoCatalog(table) ==
  /\ cs.pc = "unloaded"
  /\ cs' = [NoCatalog EXCEPT !.pc = "loaded",
                             !.descriptions = [i \in 1..Len(table) |-> upper(table[i])]]
  /\ UNCHANGED <<mem, disk, run, ev, ag>>

\* a call of search on the loaded catalog
Search(words, limit, score_cutoff) ==
  /\ cs.pc = "loaded"
  /\ cs' = [cs EXCEPT !.pc = "searched",
                      !.query = join(words),
                      !.limit = limit,
                      !.score_cutoff = score_cutoff,
                      !.results = search(cs.descriptions, join(words), limit, score_cutoff)]
  /\ UNCHANGED <<mem, disk, run, ev, ag>>

\* the caller has taken the result list
SearchReturn ==
  /\ cs.pc = "searched"
  /\ cs' = [NoCatalog EXCEPT !.pc = "loaded", !.descriptions = cs.descriptions]
  /\ UNCHANGED <<mem, disk, run, ev, ag>>

NextSearch ==
  \/ \E table \in Tables : SyscoCatalog(table)
  \/ SearchReturn
  \/ \E words \in WordLists, limit \in Limits, c \in Cutoffs : Search(words, limit, c)

SpecSearch == Init /\ [][NextSearch]_vars

\* ------------------------------------------------------ claim vocabulary
IsPrefix(a, b) == Len(a) <= Len(b) /\ a = SubSeq(b, 1, Len(a))
Range(f) == {f[i] : i \in DOMAIN f}
NameSeq(its) == [i \in 1..Len(its) |-> its[i].item_name]
DishSeq(its) == [i \in 1..Len(its) |-> its[i].dish]
CallNames(t) == [i \in 1..Len(run[t].calls) |-> run[t].calls[i].name]
NoDup(q) == \A i, j \in 1..Len(q) : q[i] = q[j] => i = j
\* the todo list of run t as computed at its start
Todo0(t) == Filter(run[t].items, run[t].done0)
\* the line items run t has appended so far (one run at a time)
Appended(t) == SubSeq(mem.processed_items, Len(run[t].items0) + 1, Len(mem.processed_items))
Started(t) == run[t].pc \in {"batching", "estimating", "done", "aborted"}
RECURSIVE BatchSizes(_)
\* the sizes of the groups of n dishes: BATCH_SIZE each, then the remainder
BatchSizes(n) ==
  IF n = 0 THEN <<>>
  ELSE <<Min(BATCH_SIZE, n)>> \o BatchSizes(n - Min(BATCH_SIZE, n))
CeilDiv(n, b) == (n + b - 1) \div b
CkptSizes(t) == [i \in 1..Len(run[t].ckpts) |-> run[t].ckpts[i].n]
\* the group (1-based) the j-th estimate call of a run belongs to
GroupOf(j) == ((j - 1) \div BATCH_SIZE) + 1
Contains(q, x) == \E i \in 1..Len(q) : q[i] = x
Recovered == load_state(BlankState, disk)

\* ---------------------------------------------------------------- claims

\* C1 (as claimed): when the line items already in processed_items are a
\* prefix P of the submitted list D, the run asks estimates exactly for the
\* dishes of D whose name is not in P, and once the run is done the names in
\* processed_items are exactly the names of D, none of them twice.
C1_Resumability ==
  \A t \in Tasks :
    (run[t].pc = "done" /\ IsPrefix(NameSeq(run[t].items0), run[t].items))
      => /\ CallNames(t) = Filter(run[t].items, Range(NameSeq(run[t].items0)))
         /\ Range(NameSeq(mem.processed_items)) = Range(run[t].items)
         /\ NoDup(NameSeq(mem.processed_items))

\* C2: in memory and in the state a restart would load, processed_count is
\* the length of processed_items, also after a failed or interrupted save.
C2_CountIsLength ==
  /\ mem.processed_count = Len(mem.processed_items)
  /\ Recovered.processed_count = Len(Recovered.processed_items)

\* C2 witness: the save inside update_batch failed after truncating the file
C2_Witness ==
  /\ ev.op = "Checkpoint" /\ ev.save = "write_fail"
  /\ disk = Partial
  /\ mem.processed_count = 2

\* C3 (as claimed): a crash, also one while save_state is writing, loses at
\* most the batch whose flush was in progress: when the file was in step
\* with memory before the crashing step, the restart loads every line item
\* memory held.
C3_AtomicPersist ==
  [][(ev'.op = "Crash" /\ disk = Json(mem))
       => mem'.processed_items = mem.processed_items]_vars

\* C4: when an estimate call of a group fails, nothing of that group is
\* appended: processed_items, processed_count and current_learnings in
\* memory, and the file, are what they were when the group started, and a
\* status poll returns that progress.
C4_AllOrNone ==
  \A t \in Tasks :
    (run[t].pc = "aborted" /\ \E i \in 1..Len(run[t].est) : run[t].est[i].st = "failed")
      => /\ mem.processed_items = run[t].base.processed_items
         /\ mem.processed_count = run[t].base.processed_count
         /\ mem.current_learnings = run[t].base.current_learnings
         /\ disk = run[t].basedisk
         /\ get_status(mem).latest_items = run[t].base.processed_items
         /\ get_status(mem).processed_count = run[t].base.processed_count
         /\ get_status(mem).total_items_in_state = Len(run[t].base.processed_items)
         /\ get_status(mem).learnings = run[t].base.current_learnings

\* C4 witness: one call of the group returned, another failed, and there
\* is earlier progress for a poll to return
C4_Witness ==
  /\ run[1].pc = "aborted"
  /\ \E i, j \in 1..Len(run[1].est) :
       run[1].est[i].st = "failed" /\ run[1].est[j].st = "done"
  /\ Len(mem.processed_items) > 0
  /\ get_status(mem).processed_count > 0

\* C5 (as claimed, for a run whose final write succeeded): a run that is
\* done has an empty todo list, status completed in memory and in the file,
\* and every name of the submitted list among the names of processed_items.
C5_Completion ==
  \A t \in Tasks :
    (run[t].pc = "done" /\ ev.op = "Finish" /\ ev.save = "ok")
      => /\ run[t].todo = <<>>
         /\ mem.status = "completed"
         /\ disk = Json(mem)
         /\ Range(run[t].items) \subseteq Range(NameSeq(mem.processed_items))

\* C6: a run with n todo dishes makes its checkpoints in sizes BATCH_SIZE,
\* ..., BATCH_SIZE, remainder; a finished run has made ceil(n / BATCH_SIZE)
\* of them; from an empty state, 4 dishes give checkpoints of 3 and 1 and
\* processed_count 4.
C6_Batching ==
  \A t \in Tasks :
    Started(t) =>
      LET n == Len(Todo0(t))
      IN /\ IsPrefix(CkptSizes(t), BatchSizes(n))
         /\ run[t].pc = "done" =>
              /\ CkptSizes(t) = BatchSizes(n)
              /\ Len(run[t].ckpts) = CeilDiv(n, BATCH_SIZE)
              /\ (run[t].items0 = <<>> /\ Len(run[t].items) = 4) =>
                    /\ CkptSizes(t) = <<3, 1>>
                    /\ mem.processed_count = 4

\* C6 witness: the 4-dish run from an empty state is done
C6_Witness ==
  /\ run[1].pc = "done"
  /\ run[1].items0 = <<>>
  /\ Len(run[1].items) = 4
  /\ Len(run[1].ckpts) = 2

\* C7: the estimate calls of a run follow the todo list in submission
\* order, the line items appended so far are those of the first dishes of
\* the todo list in that order, whatever order the calls returned in, and a
\* finished run that started empty has one line item per submitted dish,
\* position by position.
C7_Ordering ==
  \A t \in Tasks :
    Started(t) =>
      /\ IsPrefix(CallNames(t), Todo0(t))
      /\ IsPrefix(DishSeq(Appended(t)), Todo0(t))
      /\ (run[t].pc = "done" /\ run[t].items0 = <<>>) =>
            DishSeq(mem.processed_items) = run[t].items

\* C7 witness: a finished run from empty over two different dishes in which
\* a later call returned before an earlier one
C7_Witness ==
  /\ run[1].pc = "done"
  /\ run[1].items0 = <<>>
  /\ run[1].ooo
  /\ \E i, j \in 1..Len(run[1].items) : run[1].items[i] # run[1].items[j]

\* C8: the calls of one group all get the same learnings, the
\* current_learnings read when the group started; current_learnings does
\* not change while the group is in flight; the learnings of group k+1
\* contain the delta of the compaction of group k.
C8_Snapshot ==
  \A t \in Tasks :
    Started(t) =>
      /\ \A i, j \in 1..Len(run[t].calls) :
           GroupOf(i) = GroupOf(j) => run[t].calls[i].learnings = run[t].calls[j].learnings
      /\ run[t].pc = "estimating" =>
           /\ mem.current_learnings = run[t].learnings
           /\ run[t].calls[Len(run[t].calls)].learnings = run[t].learnings
      /\ \A j \in 1..Len(run[t].calls) :
           GroupOf(j) > 1 =>
             Contains(run[t].calls[j].learnings, run[t].ckpts[GroupOf(j) - 1].delta)

\* C8 witness: the second group of a run is in flight
C8_Witness ==
  /\ run[1].pc = "estimating"
  /\ Len(run[1].ckpts) = 1
  /\ Len(run[1].calls) = 4

\* C9 (as claimed): once the first estimate calls of a run are issued,
\* status in_progress is in memory and in the file.
C9_StartingPersisted ==
  \A t \in Tasks :
    (run[t].pc = "estimating" /\ run[t].ckpts = <<>>)
      => /\ mem.status = "in_progress"
         /\ disk.kind = "json"
         /\ disk.data.status = "in_progress"

\* C9 (amended): when a run has started and issued no estimate call yet,
\* status in_progress is in memory, and in the file when the write of
\* save_state at job start succeeded; while the first batch is in flight
\* status in_progress is in memory and is what a status poll returns.
C9_Starting ==
  \A t \in Tasks :
    /\ (run[t].pc = "batching" /\ run[t].calls = <<>>)
         => /\ mem.status = "in_progress"
            /\ (ev.op = "Start" /\ ev.save = "ok") => disk = Json(mem)
    /\ (run[t].pc = "estimating" /\ run[t].ckpts = <<>>)
         => /\ mem.status = "in_progress"
            /\ get_status(mem).status = "in_progress"

\* C9 witness: the first batch of a run is in flight, the write at job
\* start failed and the file does not hold in_progress, a poll returns it
C9_Witness ==
  /\ run[1].pc = "estimating"
  /\ run[1].ckpts = <<>>
  /\ disk.kind # "json"
  /\ get_status(mem).status = "in_progress"

\* C10: a checkpoint leaves processed_items the old list followed by the
\* group's results in order, processed_count the old count plus their
\* number, current_learnings the old string, " | " and the delta, status
\* unchanged, and the file equal to the new memory when the write succeeds.
C10_AppendBatch ==
  [][ev'.op = "Checkpoint" =>
       LET t == ev'.t
           items == [i \in 1..Len(run[t].est) |-> run[t].est[i].item]
           delta == run'[t].ckpts[Len(run'[t].ckpts)].delta
       IN /\ mem'.processed_items = mem.processed_items \o items
          /\ mem'.processed_count = mem.processed_count + Len(items)
          /\ mem'.current_learnings = mem.current_learnings \o <<" | ", delta>>
          /\ mem'.status = mem.status
          /\ ev'.save = "ok" => disk' = Json(mem')]_vars

\* C10 witness: the second checkpoint of a run, written successfully
C10_Witness ==
  /\ ev.op = "Checkpoint" /\ ev.save = "ok"
  /\ Len(run[1].ckpts) = 2
  /\ disk = Json(mem)

\* C11 (as claimed, restarts left aside): in every step other than a reset,
\* processed_items keeps the old list as a prefix and processed_count does
\* not decrease, in memory (between restarts) and in the persisted copy.
C11_AppendOnly ==
  [][ev'.save # "reset" =>
       /\ ev'.op # "Crash" =>
            /\ IsPrefix(mem.processed_items, mem'.processed_items)
            /\ mem'.processed_count >= mem.processed_count
       /\ IsPrefix(load_state(BlankState, disk).processed_items,
                   load_state(BlankState, disk').processed_items)
       /\ load_state(BlankState, disk').processed_count
            >= load_state(BlankState, disk).processed_count]_vars

\* C13 (as claimed): when the write of save_state fails, the run goes on
\* with its memory advanced and the file still holds the content of the
\* last successful save.
C13_WriteErrorStale ==
  [][(ev'.save \in {"open_fail", "write_fail"} /\ disk.kind = "json") =>
       /\ run'[ev'.t].pc \in {"batching", "done"}
       /\ IsPrefix(mem.processed_items, mem'.processed_items)
       /\ disk' = disk]_vars

\* C14: right after a reset, whatever the state before, memory is the blank
\* JobState, no file exists, and a restart would load the blank JobState.
C14_Reset ==
  (ev.op = "Submit" /\ ev.save = "reset") =>
    /\ mem = BlankState
    /\ mem.processed_count = 0 /\ mem.processed_items = <<>>
    /\ mem.current_learnings = DEFAULT_LEARNINGS /\ mem.status = "pending"
    /\ disk.kind = "none"
    /\ Recovered = BlankState

\* C14 witness: a reset of a job that had completed
C14_Witness ==
  /\ ev.op = "Submit" /\ ev.save = "reset"
  /\ ev.prev = "completed"
  /\ mem.status = "pending"

\* C15 (as claimed, restarts left aside): status changes only from pending
\* to in_progress at job start, from in_progress to completed when no dish
\* remains, and to pending on a reset.
C15_LifecycleStrict ==
  (ev.op # "Crash" /\ ev.prev # mem.status) =>
    \/ ev.op = "Start" /\ ev.prev = "pending" /\ mem.status = "in_progress"
    \/ /\ ev.op = "Finish" /\ ev.prev = "in_progress" /\ mem.status = "completed"
       /\ run[ev.t].todo = <<>>
    \/ ev.op = "Submit" /\ ev.save = "reset" /\ mem.status = "pending"

\* C15 (amended): in a running process status changes only to in_progress
\* at job start (from any status), from in_progress to completed when no
\* dish of the run remains, and to pending on a reset; it is never failed.
C15_Lifecycle ==
  /\ mem.status # "failed"
  /\ (ev.op # "Crash" /\ ev.prev # mem.status) =>
       \/ ev.op = "Start" /\ mem.status = "in_progress"
       \/ /\ ev.op = "Finish" /\ ev.prev = "in_progress" /\ mem.status = "completed"
          /\ run[ev.t].todo = <<>>
          /\ Len(Appended(ev.t)) = Len(Todo0(ev.t))
       \/ ev.op = "Submit" /\ ev.save = "reset" /\ mem.status = "pending"

\* C15 witness: a list re-submitted without reset after a completed job
C15_Witness ==
  /\ ev.op = "Start"
  /\ ev.prev = "completed"
  /\ mem.status = "in_progress"

\* C20 (as claimed): when compact_context fails after the estimates of a
\* group all returned, the group's line items are checkpointed and the run
\* goes on with the next batch.
C20_CompactorNonFatal ==
  [][ev'.op = "CompactFail" =>
       /\ mem'.processed_items = mem.processed_items \o Gather(run[ev'.t].est)
       /\ run'[ev'.t].pc = "batching"]_vars

Replied == Len(ag.messages) >= 3
\* the tool messages among a request's messages
ToolIds(messages) ==
  LET IsTool(m) == m.role = "tool"
      tm == SelectSeq(messages, IsTool)
  IN  [i \in 1..Len(tm) |-> tm[i].tool_call_id]
CallIds(tcs) == [i \in 1..Len(tcs) |-> tcs[i].id]

\* C16 (as claimed): one reasoning request offers the search capability;
\* after a response with no tool call no further request is sent and the
\* result is that response validated; after a response with tool calls
\* exactly one further request, in structured-output mode, is sent once all
\* tool results are appended, and the result is its response validated.
C16_Protocol ==
  /\ ag.pc # "idle" =>
       /\ Len(ag.requests) >= 1
       /\ ag.requests[1].tools
       /\ \A i \in 2..Len(ag.requests) : ~ag.requests[i].tools
  /\ (Replied /\ ag.tool_calls = <<>>) =>
       /\ Len(ag.requests) = 1
       /\ ag.result = model_validate_json(ag.final)
  /\ (Replied /\ ag.tool_calls # <<>>) =>
       /\ Len(ag.requests) = 2
       /\ ag.requests[2].json
       /\ ToolIds(ag.requests[2].messages) = CallIds(ag.tool_calls)
       /\ ag.pc \in {"done", "error"} =>
            ag.result = model_validate_json(ag.final)

\* C17 (as claimed): every request sent after tool results offers the
\* search capability again, so that the service can ask for a further
\* round of calls and the loop can execute it.
C17_Rounds ==
  \A i \in 1..Len(ag.requests) :
    ToolIds(ag.requests[i].messages) # <<>> => ag.requests[i].tools

\* C18 (as claimed): when the structured-output request is issued, its
\* messages hold exactly one tool result per tool call of the response,
\* carrying that call's id, in request order.
C18_AllAnswered ==
  \A i \in 1..Len(ag.requests) :
    ag.requests[i].json =>
      ToolIds(ag.requests[i].messages) = CallIds(ag.tool_calls)

\* C19 (as claimed): every failure of estimate_item is an EstimationError,
\* carrying the raw payload when the payload did not validate.
C19_EstimationError ==
  ag.pc = "error" =>
    /\ ag.result.exc = "EstimationError"
    /\ ag.final # NoPayload => ag.result.payload = ag.final

\* sum of the unit costs that are not null
RECURSIVE SumCosts(_)
SumCosts(unit_costs) ==
  IF unit_costs = <<>> THEN 0
  ELSE (IF Head(unit_costs) = <<>> THEN 0 ELSE Head(unit_costs)[1])
       + SumCosts(Tail(unit_costs))

\* C21 (as claimed): the LineItem returned by estimate_item has
\* ingredient_cost_per_unit equal to the sum of the non-null unit costs of
\* its ingredients.
C21_CostAggregation ==
  ag.pc = "done" =>
    ag.result.ingredient_cost_per_unit = SumCosts(ag.result.unit_costs)

\* C24 (as claimed): every line item checkpointed for a requested dish has
\* that dish's name as item_name.
C24_StableIdentity ==
  \A i \in 1..Len(mem.processed_items) :
    mem.processed_items[i].item_name = mem.processed_items[i].dish

RECURSIVE SumSeq(_)
SumSeq(q) == IF q = <<>> THEN 0 ELSE Head(q) + SumSeq(Tail(q))

\* C25: a group is compacted and checkpointed only when all its estimates
\* are back, update_batch gets exactly the group's results and the delta of
\* that compaction, nothing is appended when the compaction did not return,
\* and a group starts only when every earlier group is checkpointed.
C25_StepOrder ==
  [][/\ ev'.op = "Checkpoint" =>
          LET t == ev'.t
              results == [i \in 1..Len(run[t].batch) |-> run[t].est[i].item]
              last == run'[t].ckpts[Len(run'[t].ckpts)]
          IN  /\ run[t].pc = "estimating"
              /\ Len(run[t].est) = Len(run[t].batch)
              /\ \A i \in 1..Len(run[t].est) : run[t].est[i].st = "done"
              /\ mem'.processed_items = mem.processed_items \o results
              /\ mem'.current_learnings =
                   mem.current_learnings \o SEPARATOR \o <<last.delta>>
              /\ Len(run'[t].ckpts) = Len(run[t].ckpts) + 1
              /\ run'[t].pc = "batching"
     /\ ev'.op = "CompactFail" => (mem' = mem /\ disk' = disk)
     /\ ev'.op = "StartGroup" =>
          LET t == ev'.t
          IN  /\ run[t].pc = "batching"
              /\ SumSeq(CkptSizes(t)) = Len(run[t].calls)]_vars

\* C25 witness: the second group of a run is started, after the checkpoint
\* of the first
C25_Witness ==
  /\ ev.op = "StartGroup"
  /\ Len(run[ev.t].ckpts) = 1
  /\ Len(run[ev.t].calls) > BATCH_SIZE

\* C27 (as claimed): once the background task of a run has ended, status
\* is failed if a batch aborted and completed otherwise.
C27_Terminal ==
  \A t \in Tasks :
    /\ run[t].pc = "aborted" => mem.status = "failed"
    /\ run[t].pc = "done" => mem.status = "completed"

\* the runs that are in flight or ended normally
Live(t) == run[t].pc \in {"batching", "estimating", "done"}

\* C26 (as claimed): with overlapping submissions no dish is estimated by
\* two runs and processed_items never holds two line items of one name.
C26_AtMostOnce ==
  /\ NoDup(NameSeq(mem.processed_items))
  /\ \A t, u \in Tasks :
       (t # u /\ Live(t) /\ Live(u)) =>
         Range(CallNames(t)) \cap Range(CallNames(u)) = {}

\* C26 (amended): a run estimates only dishes of its list whose names were
\* not in processed_items when the run started, each of them once.
C26_SnapshotFilter ==
  \A t \in Tasks :
    Started(t) =>
      /\ Range(CallNames(t)) \cap run[t].done0 = {}
      /\ Range(CallNames(t)) \subseteq Range(run[t].items)
      /\ NoDup(CallNames(t))

\* C26 witness: two overlapping runs have both ended normally and
\* processed_items holds two line items of one name
C26_Witness ==
  /\ \A t \in Tasks : run[t].pc = "done"
  /\ ~NoDup(NameSeq(mem.processed_items))
  /\ \E t, u \in Tasks :
       t # u /\ Range(CallNames(t)) \cap Range(CallNames(u)) # {}

FracEq(x, y) == x.num * y.den = y.num * x.den
\* the score of row i of the loaded catalog for a query as search computes it
EntryScore(query, i) ==
  partial_token_sort_ratio(upper(default_process(query)), cs.descriptions[i])
Reaches(query, i) == FracLeq(Frac(cs.score_cutoff, 1), EntryScore(query, i))
Returned == {cs.results[k].index : k \in 1..Len(cs.results)}
\* row i comes before row j in the ranking for a query
RanksBefore(query, i, j) ==
  \/ ~FracLeq(EntryScore(query, i), EntryScore(query, j))
  \/ (FracEq(EntryScore(query, i), EntryScore(query, j)) /\ i < j)

\* C22: search returns at most limit rows, each scoring at least the cutoff,
\* higher scores first and equal scores in table order; they are the best
\* ranked of the rows that reach the cutoff, and when no row reaches it
\* the result is empty.
C22_Search ==
  cs.pc = "searched" =>
    LET res == cs.results
    IN  /\ Len(res) <= cs.limit
        /\ \A k \in 1..Len(res) :
             /\ res[k].index \in 1..Len(cs.descriptions)
             /\ res[k].desc = cs.descriptions[res[k].index]
             /\ res[k].match_score = round2(EntryScore(cs.query, res[k].index))
             /\ res[k].match_score >= 100 * cs.score_cutoff
        /\ \A k, l \in 1..Len(res) :
             k < l =>
               \/ res[k].match_score > res[l].match_score
               \/ (res[k].match_score = res[l].match_score
                     /\ res[k].index < res[l].index)
        /\ (\A i \in 1..Len(cs.descriptions) : ~Reaches(cs.query, i)) => res = <<>>
        /\ \A i \in 1..Len(cs.descriptions) :
             (cs.query # <<>> /\ Reaches(cs.query, i) /\ i \notin Returned) =>
               /\ Len(res) = cs.limit
               /\ \A k \in 1..Len(res) : RanksBefore(cs.query, res[k].index, i)

\* C22 witness: a search that returns a row and leaves out another row
\* whose score is above zero and below the cutoff
C22_Witness ==
  /\ cs.pc = "searched"
  /\ Len(cs.results) >= 1
  /\ Len(cs.results) < cs.limit
  /\ \E i \in 1..Len(cs.descriptions) :
       /\ i \notin Returned
       /\ EntryScore(cs.query, i).num > 0

Perms(n) == {f \in [1..n -> 1..n] : \A i, j \in 1..n : f[i] = f[j] => i = j}
\* the query with its words in the order f
Reordered(query, f) ==
  LET words == split(query) IN join([i \in 1..Len(words) |-> words[f[i]]])
\* the words of the query are the words of row i in some order
SameWords(query, i) ==
  /\ query # <<>>
  /\ sorted(split(upper(default_process(query)))) = sorted(split(cs.descriptions[i]))

====
